---- MODULE Spec2Model ----
(***************************************************************************)
(* A model of preprocess.py: clean_text, extract_json, extract_metadata,   *)
(* get_unified_tags and process_posts.                                     *)
(*                                                                         *)
(* Lexical abstraction.  A response string of the language model is a      *)
(* sequence of lexemes: the characters '{' and '}', a comma, a run of      *)
(* whitespace, a run of brace-free prose, and a brace-free member          *)
(* '"key": value' of a JSON object.  No lexeme but LB and RB holds a brace,*)
(* so the first '{' and the last '}' of the string are the first LB and    *)
(* the last RB of the sequence.  A JSON value is a record (kind, n, s,     *)
(* sur, l); a str is its encodable content s and the number sur of lone    *)
(* surrogate code points in it.  A dict is a function on its key set.      *)
(***************************************************************************)
EXTENDS Integers, Sequences, FiniteSets, TLC

VARIABLES
    json_text, json_ret, json_pc,
    meta_post, meta_llm, meta_ret, meta_pc,
    posts, idx, enriched_posts, pre_unify, unified_tags, outfile, events, pc, exc

vars == <<json_text, json_ret, json_pc, meta_post, meta_llm, meta_ret, meta_pc,
          posts, idx, enriched_posts, pre_unify, unified_tags, outfile, events, pc, exc>>

json_vars == <<json_text, json_ret, json_pc>>
meta_vars == <<meta_post, meta_llm, meta_ret, meta_pc>>
proc_vars == <<posts, idx, enriched_posts, pre_unify, unified_tags, outfile, events, pc, exc>>

\* ------------------------------------------------------------------ bounds
\* Longest response string, in lexemes, of the extract_json specification.
MaxLen == 5
\* Longest input array of process_posts.
MaxPosts == 2

\* ------------------------------------------------------------- JSON values
JNull == [kind |-> "null", n |-> 0, s |-> "", sur |-> 0, l |-> <<>>]
JInt(n) == [kind |-> "int", n |-> n, s |-> "", sur |-> 0, l |-> <<>>]
JStr(s) == [kind |-> "str", n |-> 0, s |-> s, sur |-> 0, l |-> <<>>]
\* A str holding k lone surrogates besides its encodable content s.
JStrSur(s, k) == [kind |-> "str", n |-> 0, s |-> s, sur |-> k, l |-> <<>>]
JList(l) == [kind |-> "list", n |-> 0, s |-> "", sur |-> 0, l |-> l]

EmptyDict == [k \in {} |-> JNull]
\* dict.get(key, default)
Get(d, key, default) == IF key \in DOMAIN d THEN d[key] ELSE default
\* d with d[key] = value
Put(d, key, value) == [k \in DOMAIN d \cup {key} |-> IF k = key THEN value ELSE d[k]]

Range(seq) == {seq[i] : i \in 1..Len(seq)}

\* The outcome of a call: a returned value, or a raised exception.
Return(v) == [exc |-> "none", val |-> v]
Raise(e) == [exc |-> e, val |-> EmptyDict]

\* ---------------------------------------------------------------- lexemes
Tok(t, k, v) == [t |-> t, k |-> k, v |-> v]
LB == Tok("{", "", JNull)
RB == Tok("}", "", JNull)
COMMA == Tok(",", "", JNull)
WS == Tok(" ", "", JNull)
X == Tok("prose", "", JNull)
Pair(k, v) == Tok("pair", k, v)

\* ------------------------------------------------------------- clean_text
\* text.encode("utf-8", "ignore").decode("utf-8"): the code points utf-8
\* cannot encode (lone surrogates) are dropped, the others are kept.
clean_text(text) == [text EXCEPT !.sur = 0]

\* ------------------------------------------------------------- json.loads
JsonOk(d) == [ok |-> TRUE, val |-> d]
JsonDecodeError == [ok |-> FALSE, val |-> EmptyDict]

\* The members of an object after its '{' or after a ',': a member, then a
\* ',' and more members, or the '}' that ends the document.  A key given
\* twice keeps its last value.
RECURSIVE ParseMembers(_, _)
ParseMembers(toks, acc) ==
    IF Len(toks) < 2 \/ Head(toks).t # "pair" THEN JsonDecodeError
    ELSE LET d == Put(acc, Head(toks).k, Head(toks).v)
             rest == Tail(toks)
         IN  IF Head(rest) = RB
             THEN IF Len(rest) = 1 THEN JsonOk(d) ELSE JsonDecodeError
             ELSE IF Head(rest) = COMMA THEN ParseMembers(Tail(rest), d)
             ELSE JsonDecodeError

\* json.loads of a string: whitespace between lexemes is skipped, the
\* document is one value and nothing may follow it.
json_loads(text) ==
    LET toks == SelectSeq(text, LAMBDA t : t # WS)
    IN  IF Len(toks) < 2 \/ Head(toks) # LB THEN JsonDecodeError
        ELSE IF toks[2] = RB
             THEN IF Len(toks) = 2 THEN JsonOk(EmptyDict) ELSE JsonDecodeError
             ELSE ParseMembers(Tail(toks), EmptyDict)

\* -------------------------------------------------------------- re.search
NoMatch == [found |-> FALSE, group |-> <<>>]
Match(text, i, j) == [found |-> TRUE, group |-> SubSeq(text, i, j)]

Min(S) == CHOOSE x \in S : \A y \in S : x <= y
Max(S) == CHOOSE x \in S : \A y \in S : y <= x

\* re.match(r"\{.*\}", text, re.DOTALL): as re_search, anchored at the start.
re_match(text) ==
    LET ends == {j \in 2..Len(text) : text[j] = RB}
    IN  IF Len(text) = 0 \/ text[1] # LB \/ ends = {} THEN NoMatch
        ELSE Match(text, 1, Max(ends))

\* re.search(r"\{.*\}", text, re.DOTALL): the leftmost '{' that has a '}'
\* after it, and (.* is greedy) the last '}' of the string.
re_search(text) ==
    LET starts == {i \in 1..Len(text) :
                       text[i] = LB /\ \E j \in (i+1)..Len(text) : text[j] = RB}
    IN  IF starts = {} THEN NoMatch
        ELSE LET i == Min(starts)
                 j == Max({k \in (i+1)..Len(text) : text[k] = RB})
             IN  Match(text, i, j)

\* ----------------------------------------------------------- extract_json
\* extract_json without its try/except: the JSONDecodeError propagates.
extract_json_uncaught(text) ==
    LET m == re_search(text)
    IN  IF m.found
        THEN IF json_loads(m.group).ok THEN Return(json_loads(m.group).val)
             ELSE Raise("JSONDecodeError")
        ELSE Return(EmptyDict)

extract_json(text) ==
    LET m == re_search(text)
    IN  IF m.found
        THEN IF json_loads(m.group).ok THEN Return(json_loads(m.group).val)
             ELSE Return(EmptyDict)
        ELSE Return(EmptyDict)

\* ------------------------------------------- specification of extract_json
PairA == Pair("a", JInt(1))
PairB == Pair("b", JInt(2))
PairA2 == Pair("a", JInt(2))
Alphabet == {LB, RB, COMMA, X, PairA, PairB, PairA2}
Texts == UNION {[1..k -> Alphabet] : k \in 0..MaxLen}

IdleJson == json_text = <<>> /\ json_ret = Return(EmptyDict) /\ json_pc = "idle"
IdleMeta ==
    /\ meta_post = JStr("") /\ meta_llm = [kind |-> "raise", content |-> <<>>, exc |-> ""]
    /\ meta_ret = Return(EmptyDict) /\ meta_pc = "idle"
IdleProc ==
    /\ posts = <<>> /\ idx = 1 /\ enriched_posts = <<>> /\ pre_unify = <<>>
    /\ unified_tags = EmptyDict /\ outfile = [written |-> FALSE, data |-> <<>>]
    /\ events = <<>> /\ pc = "idle" /\ exc = "none"

InitJson ==
    /\ json_text \in Texts
    /\ json_ret = Return(EmptyDict)
    /\ json_pc = "call"
    /\ IdleMeta /\ IdleProc

CallExtractJson ==
    /\ json_pc = "call"
    /\ json_ret' = extract_json(json_text)
    /\ json_pc' = "done"
    /\ UNCHANGED <<json_text, meta_vars, proc_vars>>

NextJson == CallExtractJson
SpecJson == InitJson /\ [][NextJson]_vars

\* ------------------------------------------------------- claims C5 and C6
\* text[i..j] is a well-formed JSON object.
IsObjectAt(text, i, j) == i <= j /\ json_loads(SubSeq(text, i, j)).ok
ObjectAt(text, i, j) == json_loads(SubSeq(text, i, j)).val
NoBraceBefore(text, i) == \A k \in 1..(i-1) : text[k] # LB
NoBraceAfter(text, j) == \A k \in (j+1)..Len(text) : text[k] # RB

\* C5 as stated: whenever the response holds a well-formed JSON object as a
\* substring, extract_json returns the parsed value of that object, whatever
\* surrounds it, braces in the surrounding prose included.
C5_AnyObjectSubstring ==
    json_pc = "done" =>
        \A i, j \in 1..Len(json_text) :
            IsObjectAt(json_text, i, j) => json_ret = Return(ObjectAt(json_text, i, j))

\* C5 amended: whenever the response holds a well-formed JSON object with no
\* '{' before it and no '}' after it, extract_json returns the parsed value
\* of that object, whatever else surrounds it.
C5_ObjectBetweenOutermostBraces ==
    json_pc = "done" =>
        \A i, j \in 1..Len(json_text) :
            (/\ IsObjectAt(json_text, i, j)
             /\ NoBraceBefore(json_text, i)
             /\ NoBraceAfter(json_text, j))
            => json_ret = Return(ObjectAt(json_text, i, j))

\* A non-empty object with prose on both sides, a '}' before it, was returned.
C5_Witness ==
    /\ json_pc = "done"
    /\ json_text = <<RB, LB, PairA, RB, X>>
    /\ json_ret = Return([a |-> JInt(1)])

\* The response holds no '{' followed later by a '}'.
NoBraceSpan(text) ==
    ~ \E i, j \in 1..Len(text) : i < j /\ text[i] = LB /\ text[j] = RB
\* The span from the first '{' to the last '}' is not well-formed JSON.
SpanUnparseable(text) ==
    \E i, j \in 1..Len(text) :
        /\ i < j /\ text[i] = LB /\ text[j] = RB
        /\ NoBraceBefore(text, i) /\ NoBraceAfter(text, j)
        /\ ~ json_loads(SubSeq(text, i, j)).ok
Unparseable(text) == NoBraceSpan(text) \/ SpanUnparseable(text)

RECURSIVE Join(_)
Join(members) ==
    IF Len(members) = 0 THEN <<>>
    ELSE IF Len(members) = 1 THEN members
    ELSE <<Head(members), COMMA, WS>> \o Join(Tail(members))
Render(members) == <<LB>> \o Join(members) \o <<RB>>

\* chain.invoke(...) returns a message with this content, or raises.
LlmReturns(content) == [kind |-> "content", content |-> content, exc |-> ""]
LlmRaises(e) == [kind |-> "raise", content |-> <<>>, exc |-> e]
\* What invoking the chain can raise: the two exceptions extract_metadata
\* names, and one it does not name (the client's connection error).
LlmExceptions == {"OutputParserException", "JSONDecodeError", "APIConnectionError"}

LineCount == Pair("line_count", JInt(1))
Language == Pair("language", JStr("English"))
TagsJH == Pair("tags", JList(<<JStr("Job Search"), JStr("Hiring")>>))
TagsH == Pair("tags", JList(<<JStr("Hiring")>>))
TagsHH == Pair("tags", JList(<<JStr("Hiring"), JStr("Hiring")>>))
TagsNull == Pair("tags", JNull)
TextKey == Pair("text", JStr("rewritten"))
IdKey == Pair("id", JInt(3))

Bodies ==
    { Render(<<LineCount, Language, TagsJH>>),
      Render(<<LineCount, Language, TagsH>>),
      Render(<<TextKey, IdKey, LineCount, Language, TagsHH>>),
      Render(<<LineCount, Language, TagsNull>>),
      Render(<<LineCount, Language>>),
      Render(<<>>),
      <<>>,
      <<LB, LineCount, COMMA, Language>>,
      <<LB, LineCount, Language, RB>> }
Prefixes == { <<>>, <<WS, X, WS>>, <<LB, X, RB, WS>> }
Suffixes == { <<>>, <<WS, X>>, <<RB>> }
\* Every response extract_metadata is tried on.
MetaResponses == {p \o b \o s : p \in Prefixes, b \in Bodies, s \in Suffixes}
MetaOutcomes ==
    {LlmReturns(r) : r \in MetaResponses} \cup {LlmRaises(e) : e \in LlmExceptions}
PostTexts == {JStr(""), JStr("Looking for a new job!"), JStrSur("hello", 1)}

\* ------------------------------------------------------- extract_metadata
Fallback ==
    [line_count |-> JInt(0), language |-> JStr("Unknown"), tags |-> JList(<<>>)]
\* The exceptions the except clause of extract_metadata names.
Caught == {"OutputParserException", "JSONDecodeError"}

\* str.strip(): leading and trailing whitespace is removed.
RECURSIVE lstrip(_)
lstrip(text) ==
    IF Len(text) > 0 /\ Head(text) = WS THEN lstrip(Tail(text)) ELSE text
RECURSIVE rstrip(_)
rstrip(text) ==
    IF Len(text) > 0 /\ text[Len(text)] = WS
    THEN rstrip(SubSeq(text, 1, Len(text) - 1)) ELSE text
strip(text) == rstrip(lstrip(text))

\* extract_metadata(post), the chain answering with llm.  What extract_json
\* returns is a dict (the span it parses starts with '{'), so the isinstance
\* test passes whenever extract_json returns.
extract_metadata(post, llm) ==
    IF llm.kind = "raise"
    THEN IF llm.exc \in Caught THEN Return(Fallback) ELSE Raise(llm.exc)
    ELSE LET res == extract_json(strip(llm.content))
         IN  IF res.exc = "none" THEN Return(res.val)
             ELSE IF res.exc \in Caught THEN Return(Fallback)
             ELSE Raise(res.exc)

\* --------------------------------------- specification of extract_metadata
InitMeta ==
    /\ meta_post \in PostTexts
    /\ meta_llm \in MetaOutcomes
    /\ meta_ret = Return(EmptyDict)
    /\ meta_pc = "call"
    /\ IdleJson /\ IdleProc

CallExtractMetadata ==
    /\ meta_pc = "call"
    /\ meta_ret' = extract_metadata(meta_post, meta_llm)
    /\ meta_pc' = "done"
    /\ UNCHANGED <<meta_post, meta_llm, json_vars, proc_vars>>

NextMeta == CallExtractMetadata
SpecMeta == InitMeta /\ [][NextMeta]_vars

\* ------------------------------------------------------- claims C2 and C3
MetadataKeys == {"line_count", "language", "tags"}

\* C2 as stated: whatever the response of the model (well-formed JSON with
\* any keys, malformed JSON, prose with no JSON), the mapping extract_metadata
\* returns holds the three keys line_count, language and tags.
C2_AlwaysThreeKeys ==
    (meta_pc = "done" /\ meta_llm.kind = "content") =>
        (meta_ret.exc = "none" /\ MetadataKeys \subseteq DOMAIN meta_ret.val)

\* The response holds no well-formed JSON object at all.
NoObjectIn(text) ==
    ~ \E i, j \in 1..Len(text) : IsObjectAt(text, i, j)
\* Extraction failed: the model call raised, or its response holds no
\* parseable JSON object.
ExtractionFailed(llm) ==
    llm.kind = "raise" \/ (llm.kind = "content" /\ NoObjectIn(llm.content))

\* C3 as stated: whenever extraction fails, extract_metadata raises nothing
\* and returns exactly the fallback {line_count: 0, language: "Unknown",
\* tags: []}.
C3_FailureGivesFallback ==
    (meta_pc = "done" /\ ExtractionFailed(meta_llm)) => meta_ret = Return(Fallback)

\* ------------------------------------------------------- get_unified_tags
\* A value a set can hold (a list is unhashable).
Hashable(v) == v.kind # "list"
\* Lines 28-32: the union of the posts' tags, then ','.join of it.  Iterating
\* a tags value that is no list, adding an unhashable tag and joining a tag
\* that is no str each raise TypeError.  (A str is iterable too, character
\* by character; no input and no response below gives tags a str.)
CollectTags(posts_with_metadata) ==
    LET n == Len(posts_with_metadata)
        tagsOf(i) == posts_with_metadata[i]["tags"]
    IN  IF \E i \in 1..n :
               \/ tagsOf(i).kind # "list"
               \/ \E t \in Range(tagsOf(i).l) : ~ Hashable(t) \/ t.kind # "str"
        THEN [exc |-> "TypeError", tags |-> {}]
        ELSE [exc |-> "none", tags |-> UNION {Range(tagsOf(i).l) : i \in 1..n}]

\* Lines 50-57, the chain answering with llm: the call is outside the try,
\* and the try catches OutputParserException alone, to raise it again.
get_unified_tags(posts_with_metadata, llm) ==
    IF CollectTags(posts_with_metadata).exc # "none"
    THEN Raise(CollectTags(posts_with_metadata).exc)
    ELSE IF llm.kind = "raise" THEN Raise(llm.exc)
    ELSE extract_json(llm.content)

\* ---------------------------------------------------------- process_posts
\* {**post, **metadata} with the operands exchanged: the post's values win.
MergePostWins(post, metadata) ==
    [k \in DOMAIN post \cup DOMAIN metadata |->
        IF k \in DOMAIN post THEN post[k] ELSE metadata[k]]

\* Line 101, {**post, **metadata}: the metadata's values win.
Merge(post, metadata) ==
    [k \in DOMAIN post \cup DOMAIN metadata |->
        IF k \in DOMAIN metadata THEN metadata[k] ELSE post[k]]

\* Line 107 left out.
KeepAsIs(post) == post

\* Line 107: post_with_metadata['tags'] = post_with_metadata.get('tags', []).
EnsureTags(post) == Put(post, "tags", Get(post, "tags", JList(<<>>)))

\* Line 97: post['text'] = clean_text(post.get('text', '')).
CleanPost(post) == Put(post, "text", clean_text(Get(post, "text", JStr(""))))

\* unified_tags.get(tag, tag): the keys of a parsed JSON object are strs.
Lookup(mapping, tag) ==
    IF tag.kind = "str" /\ tag.sur = 0 /\ tag.s \in DOMAIN mapping
    THEN mapping[tag.s] ELSE tag

\* list(s): the elements of a set, once each, in an order the set chooses.
Orders(S) == {seq \in [1..Cardinality(S) -> S] : Range(seq) = S}

\* Lines 113-115 with a list comprehension in place of the set.
RewritePostAsList(post, mapping) ==
    {Put(post, "tags",
         JList([i \in 1..Len(post["tags"].l) |-> Lookup(mapping, post["tags"].l[i])]))}

\* Lines 113-115: every rewritten post the iteration can leave.
RewritePost(post, mapping) ==
    {Put(post, "tags", JList(o)) :
        o \in Orders({Lookup(mapping, t) : t \in Range(post["tags"].l)})}

\* Adding a looked-up value to the set raises TypeError if it is unhashable.
RewriteRaises(ps, mapping) ==
    \E i \in 1..Len(ps) : \E t \in Range(ps[i]["tags"].l) : ~ Hashable(Lookup(mapping, t))

\* Lines 112-115 over the whole batch.
RECURSIVE RewriteAll(_, _)
RewriteAll(ps, mapping) ==
    IF Len(ps) = 0 THEN {<<>>}
    ELSE {<<p>> \o rest : p \in RewritePost(Head(ps), mapping),
                          rest \in RewriteAll(Tail(ps), mapping)}

\* json.dump(..., ensure_ascii=False) to a utf-8 file raises
\* UnicodeEncodeError on a str that holds a lone surrogate.
HasSurrogate(v) == v.sur > 0 \/ \E e \in Range(v.l) : e.sur > 0
Unencodable(ps) ==
    \E i \in 1..Len(ps) : \E k \in DOMAIN ps[i] : HasSurrogate(ps[i][k])

\* The input file.
InputPosts ==
    { [text |-> JStr("Looking for a new job! #JobSearch #Hiring")],
      [text |-> JStrSur("hello", 1), id |-> JInt(7), line_count |-> JInt(9),
       tags |-> JList(<<JStr("Old")>>)],
      [author |-> JStrSur("al", 1)] }
InputArrays == UNION {[1..n -> InputPosts] : n \in 0..MaxPosts}

\* What the model answers to the extraction prompt of a record.
ExtractOutcomes ==
    {LlmReturns(r) : r \in
        { Render(<<LineCount, Language, TagsJH>>),
          <<WS, X, WS>> \o Render(<<LineCount, Language, TagsH>>) \o <<WS, X>>,
          Render(<<TextKey, IdKey, LineCount, Language, TagsHH>>),
          Render(<<LineCount, Language, TagsNull>>),
          Render(<<LineCount, Language>>),
          <<X>>,
          <<LB, LineCount, Language, RB>>,
          <<LB, X, RB, WS>> \o Render(<<LineCount, Language, TagsJH>>) }}
    \cup {LlmRaises(e) : e \in LlmExceptions}

\* What the model answers to the unification prompt.
UnifyOutcomes ==
    {LlmReturns(r) : r \in
        { Render(<<Pair("Job Search", JStr("Job Search")),
                   Pair("Hiring", JStr("Job Search"))>>),
          <<X, WS>> \o Render(<<Pair("Hiring", JStr("Recruiting"))>>),
          Render(<<Pair("Hiring", JList(<<JStr("Recruiting")>>))>>),
          <<X>>,
          <<LB, Pair("Hiring", JStr("Recruiting"))>> }}
    \cup {LlmRaises("APIConnectionError")}

NoEvent == [ev |-> "none", post |-> JNull, tags |-> {}, llm |-> LlmRaises(""),
            md |-> Return(EmptyDict)]

Init ==
    /\ posts \in InputArrays
    /\ idx = 1
    /\ enriched_posts = <<>>
    /\ pre_unify = <<>>
    /\ unified_tags = EmptyDict
    /\ outfile = [written |-> FALSE, data |-> <<>>]
    /\ events = <<>>
    /\ pc = "loop"
    /\ exc = "none"
    /\ IdleJson /\ IdleMeta

\* The for loop of line 96 stops after one record.
LoopDoneEarly == idx > 1

\* The for loop of line 96 has gone through the array.
LoopDone == idx > Len(posts)

\* Lines 96-109: one iteration of the loop, the model answering with some
\* outcome.  The prompt holds the text extract_metadata cleaned.
ExtractRecord ==
    /\ pc = "loop" /\ ~ LoopDone /\ idx <= Len(posts)
    /\ \E llm \in ExtractOutcomes :
          LET post == CleanPost(posts[idx])
              metadata == extract_metadata(post["text"], llm)
          IN  /\ events' = Append(events,
                     [NoEvent EXCEPT !.ev = "extract", !.post = clean_text(post["text"]),
                                     !.llm = llm, !.md = metadata])
              /\ IF metadata.exc # "none"
                 THEN /\ pc' = "raised" /\ exc' = metadata.exc
                      /\ UNCHANGED <<idx, enriched_posts>>
                 ELSE /\ enriched_posts' =
                             Append(enriched_posts, EnsureTags(Merge(post, metadata.val)))
                      /\ idx' = idx + 1
                      /\ UNCHANGED <<pc, exc>>
    /\ UNCHANGED <<posts, pre_unify, unified_tags, outfile, json_vars, meta_vars>>

\* Lines 111-115: get_unified_tags, then the rewriting of every post's tags.
\* No prompt is sent when collecting the tags raises.
UnifyTags ==
    /\ pc = "loop" /\ LoopDone
    /\ \E llm \in UnifyOutcomes :
          LET collected == CollectTags(enriched_posts)
              ret == get_unified_tags(enriched_posts, llm)
          IN  /\ events' = IF collected.exc # "none" THEN events
                           ELSE Append(events,
                                  [NoEvent EXCEPT !.ev = "unify", !.tags = collected.tags,
                                                  !.llm = llm, !.md = ret])
              /\ IF ret.exc # "none"
                 THEN /\ pc' = "raised" /\ exc' = ret.exc
                      /\ UNCHANGED <<enriched_posts, pre_unify, unified_tags>>
                 ELSE /\ unified_tags' = ret.val
                      /\ pre_unify' = enriched_posts
                      /\ IF RewriteRaises(enriched_posts, ret.val)
                         THEN /\ pc' = "raised" /\ exc' = "TypeError"
                              /\ UNCHANGED enriched_posts
                         ELSE /\ enriched_posts' \in RewriteAll(enriched_posts, ret.val)
                              /\ pc' = "unified"
                              /\ UNCHANGED exc
    /\ UNCHANGED <<posts, idx, outfile, json_vars, meta_vars>>

\* Lines 118-119: the output file is opened and the batch is dumped into it.
WriteOutput ==
    /\ pc = "unified"
    /\ events' = Append(events, [NoEvent EXCEPT !.ev = "write"])
    /\ IF Unencodable(enriched_posts)
       THEN \* the file is left opened and incomplete: no output array
            /\ pc' = "raised" /\ exc' = "UnicodeEncodeError"
            /\ UNCHANGED outfile
       ELSE /\ outfile' = [written |-> TRUE, data |-> enriched_posts]
            /\ pc' = "done"
            /\ UNCHANGED exc
    /\ UNCHANGED <<posts, idx, enriched_posts, pre_unify, unified_tags, json_vars, meta_vars>>

Next == ExtractRecord \/ UnifyTags \/ WriteOutput
Spec == Init /\ [][Next]_vars

\* ----------------------------------------------------------------- claims
\* The model call of event e returned a response extract_json can parse.
Succeeded(e) == e.llm.kind = "content" /\ ~ Unparseable(e.llm.content)
\* The model call of event e raised, or returned malformed or no JSON.
Failed(e) == e.llm.kind = "raise" \/ Unparseable(e.llm.content)

\* C1 as stated: when the tag-mapping response cannot be parsed as a JSON
\* object, get_unified_tags raises, so process_posts ends with that error,
\* rewrites no tags and writes no output file.
C1_UnparseableMappingRaises ==
    \A k \in 1..Len(events) :
        (/\ events[k].ev = "unify"
         /\ events[k].llm.kind = "content"
         /\ Unparseable(events[k].llm.content))
        => (/\ events[k].md.exc # "none"
            /\ pc = "raised"
            /\ pre_unify = <<>>
            /\ ~ outfile.written)

\* C4 as stated: if the extraction of record i fails (malformed JSON, or an
\* exception of the model call) and every other model call succeeds, the run
\* is not ended by that failure, and the output it writes holds every input
\* record, record i with the fallback metadata.
C4_BadExtractionKeepsBatch ==
    \A i \in 1..Len(events) :
        (/\ events[i].ev = "extract"
         /\ Failed(events[i])
         /\ \A j \in 1..Len(events) :
               (j # i /\ events[j].ev # "write") => Succeeded(events[j]))
        => (/\ ~ (pc = "raised" /\ exc \in LlmExceptions)
            /\ pc = "done" =>
                  /\ Len(outfile.data) = Len(posts)
                  /\ \A k \in MetadataKeys :
                        /\ k \in DOMAIN outfile.data[i]
                        /\ outfile.data[i][k] = Fallback[k])

NoDuplicates(seq) == \A a, b \in 1..Len(seq) : a # b => seq[a] # seq[b]

\* C7: after process_posts completes, the set of output tags of every
\* record is the image of its tags before unification under the mapping, a
\* tag the mapping lacks standing for itself, and no output tag is repeated.
C7_TagsAreImageOfMapping ==
    pc = "done" =>
        /\ Len(outfile.data) = Len(pre_unify)
        /\ \A i \in 1..Len(pre_unify) :
              LET out == outfile.data[i]["tags"].l
                  pre == pre_unify[i]["tags"].l
              IN  /\ Range(out) = {Get(unified_tags, t.s, t) : t \in Range(pre)}
                  /\ NoDuplicates(out)

\* The example of the specification: two tags mapped to one.
C7_Witness ==
    /\ pc = "done"
    /\ \E i \in 1..Len(pre_unify) :
          /\ pre_unify[i]["tags"].l = <<JStr("Job Search"), JStr("Hiring")>>
          /\ outfile.data[i]["tags"].l = <<JStr("Job Search")>>
    /\ unified_tags = [k \in {"Job Search", "Hiring"} |-> JStr("Job Search")]

\* C8: every record of the enriched batch has a tags field, whatever the
\* extraction returned for it.
C8_EveryRecordHasTags ==
    \A i \in 1..Len(enriched_posts) : "tags" \in DOMAIN enriched_posts[i]

\* A record with no tags of its own, whose extraction returned the empty
\* mapping, stands in the batch with an empty tag list before unification.
C8_Witness ==
    /\ pc = "loop"
    /\ \E i \in 1..Len(enriched_posts) :
          /\ "tags" \notin DOMAIN posts[i]
          /\ events[i].md = Return(EmptyDict)
          /\ enriched_posts[i]["tags"] = JList(<<>>)

\* C9: the external events of a run are, in this order, one extraction call
\* per record, the i-th for the i-th record, then the unification call, then
\* the write of the output file; a completed run has made them all.
C9_CallOrder ==
    /\ \A k \in 1..Len(events) :
          /\ events[k].ev = "extract" <=> k <= Len(posts)
          /\ events[k].ev = "extract" =>
                events[k].post = clean_text(Get(posts[k], "text", JStr("")))
          /\ events[k].ev = "unify" <=> k = Len(posts) + 1
          /\ events[k].ev = "write" <=> k = Len(posts) + 2
    /\ pc = "done" => Len(events) = Len(posts) + 2

\* A run over two different records has completed.
C9_Witness ==
    /\ pc = "done"
    /\ Len(posts) = 2
    /\ posts[1] # posts[2]
    /\ events[3].ev = "unify"

\* C10: in the merged record a field of both the input record and the
\* metadata has the metadata's value (tags until unification rewrites it),
\* and a field of the input record that is no metadata key, text and tags
\* apart, keeps its input value, in the batch and in the output file.
C10_MergePrecedence ==
    /\ \A i \in 1..Len(enriched_posts) :
          LET metadata == events[i].md.val
              rec == enriched_posts[i]
          IN  /\ \A k \in DOMAIN posts[i] \cap DOMAIN metadata :
                    (k # "tags" \/ pc = "loop") => rec[k] = metadata[k]
              /\ \A k \in DOMAIN posts[i] \ (DOMAIN metadata \cup {"text", "tags"}) :
                    k \in DOMAIN rec /\ rec[k] = posts[i][k]
    /\ pc = "done" => outfile.data = enriched_posts

\* A written record whose line_count came from the metadata and whose id
\* came from the input.
C10_Witness ==
    /\ pc = "done"
    /\ \E i \in 1..Len(posts) :
          /\ {"id", "line_count"} \subseteq DOMAIN posts[i]
          /\ "id" \notin DOMAIN events[i].md.val
          /\ "line_count" \in DOMAIN events[i].md.val
          /\ posts[i]["line_count"] # events[i].md.val["line_count"]
          /\ outfile.data[i]["line_count"] = events[i].md.val["line_count"]
          /\ outfile.data[i]["id"] = posts[i]["id"]

====
